---- MODULE Spec2Model ----
(***************************************************************************)
(* Model of the database setup pipeline: databases_setup.main, the          *)
(* DataCleaner of preprocessing/data_cleaning.py and the two loaders        *)
(* (setupper/postgres_setup.py, setupper/mongo_setup.py).                   *)
(*                                                                          *)
(* A table (pandas DataFrame) is a record [cols, rows]: cols the set of     *)
(* column names, rows a sequence of functions from cols to cell values.     *)
(* Every cell value is a string; the missing values are "NaN" (numpy nan,   *)
(* what read_csv and a left merge produce), "<NA>" (pandas.NA, what the     *)
(* Int64 conversion produces) and "None" (Python None).                     *)
(***************************************************************************)
EXTENDS Integers, Sequences, FiniteSets, TLC

\* ------------------------------------------------------------------ bounds
MaxMovies == 2
MaxReviews == 2
MaxAwards == 1
MaxRows == 2
MaxFaults == 1

\* --------------------------------------------------------- names of things
required_vars ==
  {"POSTGRES_HOST", "POSTGRES_PORT", "POSTGRES_DB", "POSTGRES_USER",
   "POSTGRES_PASSWORD", "MONGO_HOST", "MONGO_PORT", "MONGO_DB"}

required_files ==
  <<"movies", "actors", "crew", "countries", "genres", "languages", "studios",
    "themes", "releases", "posters", "rotten_tomatoes_reviews",
    "the_oscar_awards">>

\* The stems of the required files, and one CSV the directory may hold besides.
RequiredNames == {required_files[i] : i \in 1..Len(required_files)}
ExtraName == "extra"
FileNames == RequiredNames \cup {ExtraName}

REVIEWS == "rotten_tomatoes_reviews"
AWARDS == "the_oscar_awards"

\* A file of the directory is missing, of size zero, of size > 0 but not
\* parseable as CSV, or a parseable CSV.
FileStatus == {"missing", "zero", "garbled", "ok"}

\* ------------------------------------------------------------ cell values
NaN == "NaN"
NA == "<NA>"
None == "None"

isna(v) == v \in {NaN, NA, None}

\* ------------------------------------------------------- DataFrame algebra
NoTable == [cols |-> {}, rows |-> <<>>]

\* DataFrame.empty: any axis has length zero.
empty(df) == Len(df.rows) = 0 \/ df.cols = {}

\* DataFrame.dropna(subset=col): the rows whose cell in col is not missing,
\* in their order.
dropna(df, col) ==
  [df EXCEPT !.rows = SelectSeq(df.rows, LAMBDA r : ~isna(r[col]))]

\* df[col] = df[src].apply(f): col is added (or overwritten) on every row.
assign(df, col, src, f(_)) ==
  [cols |-> df.cols \cup {col},
   rows |-> [i \in 1..Len(df.rows) |->
               [c \in df.cols \cup {col} |->
                  IF c = col THEN f(df.rows[i][src]) ELSE df.rows[i][c]]]]

\* DataFrame.drop(columns=cs)
drop(df, cs) ==
  [cols |-> df.cols \ cs,
   rows |-> [i \in 1..Len(df.rows) |-> [c \in df.cols \ cs |-> df.rows[i][c]]]]

\* DataFrame[[...]]: the projection on the columns cs.
project(df, cs) ==
  [cols |-> cs,
   rows |-> [i \in 1..Len(df.rows) |-> [c \in cs |-> df.rows[i][c]]]]

\* DataFrame.rename(columns={old: new}); a no-op when old is no column.
rename(df, old, new) ==
  IF old \notin df.cols THEN df
  ELSE LET cs == (df.cols \ {old}) \cup {new}
       IN [cols |-> cs,
           rows |-> [i \in 1..Len(df.rows) |->
                       [c \in cs |-> IF c = new THEN df.rows[i][old]
                                     ELSE df.rows[i][c]]]]

\* DataFrame.drop_duplicates(subset=col), keep='first' (the default): a row
\* stays iff no earlier row has the same value in col.
drop_duplicates_last(df, col) ==
  LET keep(i) == \A j \in (i+1)..Len(df.rows) : df.rows[j][col] # df.rows[i][col]
      idx == {i \in 1..Len(df.rows) : keep(i)}
      RECURSIVE pick(_)
      pick(i) == IF i > Len(df.rows) THEN <<>>
                 ELSE IF i \in idx THEN <<df.rows[i]>> \o pick(i + 1)
                 ELSE pick(i + 1)
  IN [df EXCEPT !.rows = pick(1)]

drop_duplicates(df, col) ==
  LET keep(i) == \A j \in 1..(i-1) : df.rows[j][col] # df.rows[i][col]
      idx == {i \in 1..Len(df.rows) : keep(i)}
      RECURSIVE pick(_)
      pick(i) == IF i > Len(df.rows) THEN <<>>
                 ELSE IF i \in idx THEN <<df.rows[i]>> \o pick(i + 1)
                 ELSE pick(i + 1)
  IN [df EXCEPT !.rows = pick(1)]

\* An integer column that received a missing value becomes a float column.
ToFloat(v) == CASE v = "1" -> "1.0" [] v = "2" -> "2.0" [] v = "3" -> "3.0"
                [] v = "4" -> "4.0" [] OTHER -> v

\* Series.astype('Int64'): nullable integers, the missing value is pandas.NA.
ToInt64(v) == CASE v = "1.0" -> "1" [] v = "2.0" -> "2" [] v = "3.0" -> "3"
                [] v = "4.0" -> "4" [] v = NaN -> NA [] OTHER -> v

\* left.merge(right, left_on=lk, right_on=rk, how=...): for every left row, in
\* order, one output row per right row with an equal key (in the right's
\* order); a left row without a match is kept once, the right's columns NaN
\* (how='left') or is dropped (how='inner').  The right's other columns turn
\* float as soon as one row is unmatched.
join_rows(left, right, lk, rk, how) ==
  LET cs == left.cols \cup right.cols
      matches(l) == SelectSeq(right.rows, LAMBDA r : r[rk] = l[lk])
      unmatched == \E i \in 1..Len(left.rows) : Len(matches(left.rows[i])) = 0
      conv(c, v) == IF how = "left" /\ unmatched /\ c \in (right.cols \ {rk})
                    THEN ToFloat(v) ELSE v
      join(l, r) == [c \in cs |-> IF c \in left.cols THEN l[c] ELSE conv(c, r[c])]
      miss(l) == [c \in cs |-> IF c \in left.cols THEN l[c] ELSE NaN]
      rowsOf(l) == IF Len(matches(l)) = 0
                   THEN (IF how = "left" THEN <<miss(l)>> ELSE <<>>)
                   ELSE [k \in 1..Len(matches(l)) |-> join(l, matches(l)[k])]
      RECURSIVE all(_)
      all(i) == IF i > Len(left.rows) THEN <<>>
                ELSE rowsOf(left.rows[i]) \o all(i + 1)
  IN [cols |-> cs, rows |-> all(1)]

merge_inner(left, right, lk, rk) == join_rows(left, right, lk, rk, "inner")

\* DataFrame.merge(..., how='left')
merge(left, right, lk, rk) == join_rows(left, right, lk, rk, "left")

\* DataFrame.replace({pd.NA: None}): every missing value becomes None.
replace_na(df) ==
  [df EXCEPT !.rows = [i \in 1..Len(df.rows) |->
     [c \in df.cols |-> IF isna(df.rows[i][c]) THEN None ELSE df.rows[i][c]]]]

\* ------------------------------------------------------------- normalizer
\* str.casefold on the titles of the model.
CaseFold(t) ==
  CASE t = "Alpha" -> "alpha"
    [] t = "ALPHA" -> "alpha"
    [] t = "Beta" -> "beta"
    [] t = "Alpha (1999)" -> "alpha (1999)"
    [] t = "Beta (2001)" -> "beta (2001)"
    [] OTHER -> t

\* Removal of a trailing parenthetical.
StripParen(t) ==
  CASE t = "alpha (1999)" -> "alpha"
    [] t = "Alpha (1999)" -> "Alpha"
    [] t = "Beta (2001)" -> "Beta"
    [] OTHER -> t

normalize_title(t, parentesi) ==
  CaseFold(IF parentesi THEN StripParen(t) ELSE t)

normalize_title_plain(t) == normalize_title(t, FALSE)
normalize_title_paren(t) == normalize_title(t, TRUE)

\* A score: a plain number (a, in hundredths), a fraction "a/b", a letter
\* grade g, or the missing marker.
Num(v) == [kind |-> "num", a |-> v, b |-> 1, g |-> ""]
Frac(n, d) == [kind |-> "frac", a |-> n, b |-> d, g |-> ""]
Letter(x) == [kind |-> "letter", a |-> 0, b |-> 1, g |-> x]
Missing == [kind |-> "missing", a |-> 0, b |-> 1, g |-> ""]

\* The letter grades and their values, in hundredths.
LetterValue(x) ==
  CASE x = "A" -> 1000 [] x = "A-" -> 900
    [] x = "B+" -> 850 [] x = "B" -> 800 [] x = "B-" -> 750
    [] x = "C+" -> 700 [] x = "C" -> 600 [] x = "C-" -> 550
    [] x = "D+" -> 500 [] x = "D" -> 400 [] x = "D-" -> 350
    [] x = "F" -> 100
    [] OTHER -> -1

\* n / d rounded to the nearest integer, a tie to the even one (n >= 0, d > 0).
round_half_even(n, d) ==
  LET q == n \div d
      r == n % d
  IN IF 2 * r < d THEN q
     ELSE IF 2 * r > d THEN q + 1
     ELSE IF q % 2 = 0 THEN q ELSE q + 1

\* num / denom on the scale 0-10, rounded to one decimal place; in hundredths.
rescaled_percent(num, denom) == round_half_even(num * 1000, denom) * 10

rescaled(num, denom) == round_half_even(num * 100, denom) * 10

\* normalize_score on a score: a number out of 0-10, a zero denominator, a
\* rescaled value out of 0-10 and an unknown letter give the missing marker.
normalize_score_value(e) ==
  CASE e.kind = "num" -> IF e.a > 1000 \/ e.a < 0 THEN Missing ELSE e
    [] e.kind = "frac" ->
         IF e.b = 0 THEN Missing
         ELSE IF e.a < 0 \/ e.a > e.b THEN Missing
         ELSE Num(rescaled(e.a, e.b))
    [] e.kind = "letter" -> IF LetterValue(e.g) < 0 THEN Missing ELSE Num(LetterValue(e.g))
    [] OTHER -> Missing

\* The cells of review_score the model uses, read as scores, and a score
\* written as a cell.
ParseScore(v) ==
  CASE v = "8/10" -> Frac(8, 10)
    [] v = "8.0" -> Num(800)
    [] v = "8.5" -> Num(850)
    [] v = NaN -> Missing
    [] OTHER -> Letter(v)

FormatScore(e) ==
  IF e.kind = "missing" THEN NaN
  ELSE ToString(e.a \div 100) \o "." \o
       (IF e.a % 10 = 0 THEN ToString((e.a % 100) \div 10)
        ELSE ToString((e.a % 100) \div 10) \o ToString(e.a % 10))

normalize_score(v) == FormatScore(normalize_score_value(ParseScore(v)))


\* ------------------------------------------------------- input, bounded
Seqs(S, n) == UNION {[1..k -> S] : k \in 0..n}

IdStr == <<"1", "2", "3", "4">>

\* movies.csv: up to MaxMovies rows, the ids distinct (ascending or
\* descending in file order), the names any of MovieNames.
MovieNames == {"Alpha", "ALPHA", "Beta (2001)"}

MovieTable(names, asc) ==
  [cols |-> {"id", "name"},
   rows |-> [i \in 1..Len(names) |->
               [id |-> IdStr[IF asc THEN i ELSE Len(names) + 1 - i],
                name |-> names[i]]]]

MovieTables == {MovieTable(ns, asc) : ns \in Seqs(MovieNames, MaxMovies), asc \in BOOLEAN}

\* rotten_tomatoes_reviews.csv: the title absent, matching a movie after
\* normalization, or matching none.
ReviewTitles == {NaN, "alpha (1999)", "Beta (2001)"}

ReviewTable(titles) ==
  [cols |-> {"movie_title", "review_score"},
   rows |-> [i \in 1..Len(titles) |-> [movie_title |-> titles[i], review_score |-> "B"]]]

ReviewTables == {ReviewTable(ts) : ts \in Seqs(ReviewTitles, MaxReviews)}

\* the_oscar_awards.csv: "((" is a malformed but present title.
AwardFilms == {NaN, "ALPHA", "(("}

AwardTable(films) ==
  [cols |-> {"film", "category"},
   rows |-> [i \in 1..Len(films) |-> [film |-> films[i], category |-> "c"]]]

AwardTables == {AwardTable(fs) : fs \in Seqs(AwardFilms, MaxAwards)}

\* Every other CSV: n rows, with or without a column named id.
OtherTable(n, hasId) ==
  [cols |-> IF hasId THEN {"id", "name"} ELSE {"name"},
   rows |-> [i \in 1..n |-> IF hasId THEN [id |-> "1", name |-> "x"]
                            ELSE [name |-> "x"]]]

Repeat(v, n) == [i \in 1..n |-> v]

\* The inputs of a whole run: every file holds n rows that match one another,
\* but for at most one file d, which holds a header alone (v = "empty") or, for
\* the reviews and the awards, rows without a title (v = "nan").
MainTable(name, n) ==
  CASE name = "movies" -> MovieTable(Repeat("Alpha", n), TRUE)
    [] name = REVIEWS -> ReviewTable(Repeat("Alpha (1999)", n))
    [] name = AWARDS -> AwardTable(Repeat("ALPHA", n))
    [] OTHER -> OtherTable(n, TRUE)

OddTable(name, n, v) ==
  CASE v = "nan" /\ name = REVIEWS -> ReviewTable(Repeat(NaN, n))
    [] v = "nan" /\ name = AWARDS -> AwardTable(Repeat(NaN, n))
    [] OTHER -> MainTable(name, 0)

Structured ==
  {"movies", "actors", "crew", "countries", "genres", "languages", "studios",
   "themes", "releases", "posters"}

MainInputs(names) ==
  {[f \in names |-> IF f \in D THEN OddTable(f, n, v) ELSE MainTable(f, n)] :
     n \in 1..MaxRows, v \in {"empty", "nan"},
     D \in {{d} : d \in names} \cup {{}, Structured, {REVIEWS, AWARDS}}}

\* The inputs of the cleaner alone: any movies, reviews and awards tables.
CleanInputs(names) ==
  {[f \in names |->
      CASE f = "movies" -> m [] f = REVIEWS -> r [] f = AWARDS -> a
        [] OTHER -> OtherTable(1, f # "crew")] :
     m \in MovieTables, r \in ReviewTables, a \in AwardTables}

\* The directories the cleaner is run on by itself: any of the movies, the
\* reviews and the awards may be missing.
CleanDirs ==
  {[exists |-> e,
    files |-> [f \in FileNames |->
                 IF f \in S \/ (f = ExtraName /\ S # {REVIEWS, AWARDS}) THEN "missing"
                 ELSE "ok"]] :
     e \in BOOLEAN, S \in SUBSET {"movies", REVIEWS, AWARDS}}

\* The directories: at most MaxFaults required files are not a parseable CSV.
DirsWith(kinds) ==
  UNION {{[exists |-> e,
           files |-> [f \in FileNames |->
                        IF f \in S THEN k[f] ELSE IF f = ExtraName THEN x ELSE "ok"]] :
            e \in BOOLEAN, k \in [S -> kinds], x \in {"missing", "ok"}} :
         S \in {T \in SUBSET RequiredNames : Cardinality(T) <= MaxFaults}}

Dirs == DirsWith({"missing", "zero", "garbled"})

\* --------------------------------------------------------------- the state
VARIABLES
  pc,            \* the stage main is about to run; "done" and "exit" are final
  argv_given,    \* the data directory came from sys.argv[1] (a str, not a Path)
  missing_vars,  \* the required variables os.getenv finds unset or empty
  dir,           \* the data directory as the file system holds it
  data,          \* DataCleaner.data: dataset name -> table
  loaded,        \* history: data as load_all_csv left it
  matched_in,    \* history: data as match_movie_ids found it
  cleaned_data,  \* what clean_data returned to main
  exit_status,   \* -1 while running, then the process's exit status
  trace,         \* history: the stages started, in order
  failed,        \* history: the stage that raised and what it raised
  pgconn,        \* PostgreSQLSetup.conn: "none", "open" or "closed"
  pg_batch,      \* PostgreSQLSetup.batch_size
  pgdb,          \* the relational store: what is committed
  pgwork,        \* the relational store as the open transaction sees it
  pglog,         \* history: the operations sent to the relational store
  pg_i,          \* the index in pg_tables of the next dataset to insert
  pg_total,      \* main's pg_total
  mongoclient,   \* MongoDBSetup.client: "none", "open" or "closed"
  mongo_batch,   \* MongoDBSetup.batch_size
  mongodb,       \* the document store
  mongolog,      \* history: the operations sent to the document store
  mongo_total,   \* main's mongo_total
  stores0,       \* history: both stores as the run found them
  call,          \* history: the last insert_dataframe call made on a loader alone
  score_call     \* history: normalize_score applied to a score, and to its result

cleanerVars == <<data, loaded, matched_in>>
pgVars == <<pgconn, pg_batch, pgdb, pgwork, pglog, pg_i, pg_total>>
mongoVars == <<mongoclient, mongo_batch, mongodb, mongolog, mongo_total>>
inputVars == <<argv_given, missing_vars, dir, stores0, call, score_call>>
vars == <<pc, exit_status, trace, failed, cleaned_data, inputVars, cleanerVars,
          pgVars, mongoVars>>

NoData == [n \in {} |-> NoTable]
NoScoreCall == [raw |-> Missing, once |-> Missing, twice |-> Missing, step |-> 0]
NoFailure == [stage |-> "", exc |-> ""]
NoDir == [exists |-> FALSE, files |-> [f \in FileNames |-> "missing"]]

\* ------------------------------------------------- main's exception handlers
\* The try block a stage runs in: the cleaning, the PostgreSQL and the MongoDB
\* blocks are nested in main's outer try; validation is in the outer try alone.
BlockOf(stage) ==
  CASE stage \in {"validate_environment", "validate_data_directory"} -> "outer"
    [] stage \in {"DataCleaner", "load_all_csv", "clean_invalid_films",
                  "normalize_data", "match_movie_ids", "prepare_for_database"} -> "clean"
    [] stage \in {"pg_connect", "pg_create_schema", "pg_insert",
                  "pg_create_indexes", "pg_cleanup"} -> "postgres"
    [] OTHER -> "mongo"

\* BaseException subclasses that are no Exception.
IsException(exc) == exc \notin {"KeyboardInterrupt", "SystemExit"}

\* The inner handlers: `except Exception` around clean_data calls sys.exit(1);
\* those around the two loads log and re-raise.
InnerHandler(block, exc) ==
  IF block = "clean" /\ IsException(exc) THEN "SystemExit" ELSE exc

\* The outer handlers: KeyboardInterrupt -> sys.exit(1); SystemExit re-raised
\* (every sys.exit of the program passes 1); Exception -> sys.exit(1).
OuterHandlerSwallow(exc) ==
  CASE exc = "KeyboardInterrupt" -> 1
    [] exc = "SystemExit" -> 0
    [] OTHER -> 1

OuterHandler(exc) ==
  CASE exc = "KeyboardInterrupt" -> 1
    [] exc = "SystemExit" -> 1
    [] OTHER -> 1

\* Stage `stage` raises exc: the handlers run and the process exits.
Raise(stage, exc) ==
  /\ pc' = "exit"
  /\ exit_status' = OuterHandler(InnerHandler(BlockOf(stage), exc))
  /\ failed' = [stage |-> stage, exc |-> exc]
  /\ trace' = Append(trace, stage)

\* Stage `stage` completes and main goes on with `next`.
Goto(stage, next) ==
  /\ pc' = next
  /\ trace' = Append(trace, stage)
  /\ UNCHANGED <<exit_status, failed>>

\* ------------------------------------------------------------- validation
\* validate_environment: sys.exit(1) when a required variable is unset or empty.
validate_environment ==
  /\ pc = "validate_environment"
  /\ \E m \in {S \in SUBSET required_vars : Cardinality(S) <= MaxFaults} :
       /\ missing_vars' = m
       /\ IF m # {} THEN Raise("validate_environment", "SystemExit")
          ELSE Goto("validate_environment", "validate_data_directory")
  /\ UNCHANGED <<argv_given, dir, stores0, call, score_call, cleaned_data, cleanerVars, pgVars, mongoVars>>

\* Lines 66-74: the loop exits at the first required file of size zero.
HasZeroFile_never(d) == FALSE

HasZeroFile(d) == \E i \in 1..Len(required_files) : d.files[required_files[i]] = "zero"
missing_files(d) ==
  SelectSeq(required_files, LAMBDA f : d.files[f] = "missing")

\* validate_data_directory(data_path): data_path.exists() is a method of Path;
\* the str taken from sys.argv has none (AttributeError).
validate_data_directory ==
  /\ pc = "validate_data_directory"
  /\ \E d \in Dirs :
       /\ dir' = d
       /\ IF argv_given THEN Raise("validate_data_directory", "AttributeError")
          ELSE IF ~d.exists THEN Raise("validate_data_directory", "SystemExit")
          ELSE IF HasZeroFile(d) THEN Raise("validate_data_directory", "SystemExit")
          ELSE IF Len(missing_files(d)) > 0
               THEN Raise("validate_data_directory", "SystemExit")
          ELSE Goto("validate_data_directory", "DataCleaner")
  /\ UNCHANGED <<argv_given, missing_vars, stores0, call, score_call, cleaned_data, cleanerVars, pgVars, mongoVars>>

\* ---------------------------------------------------------------- cleaner
\* DataCleaner.__init__: the directory must exist (and be a directory).
DataCleaner ==
  /\ pc = "DataCleaner"
  /\ IF ~dir.exists THEN Raise("DataCleaner", "FileNotFoundError")
     ELSE Goto("DataCleaner", "load_all_csv")
  /\ UNCHANGED <<argv_given, missing_vars, dir, stores0, call, score_call, cleaned_data, cleanerVars, pgVars, mongoVars>>

\* The files glob('*.csv') finds.
csv_files(d) == {f \in FileNames : d.files[f] # "missing"}

\* load_all_csv: every CSV of the directory is read, under its stem; a file
\* read_csv cannot parse (an empty or garbled one) raises RuntimeError.
LoadAllCsvFrom(Inputs(_)) ==
  /\ pc = "load_all_csv"
  /\ IF csv_files(dir) = {}
     THEN Raise("load_all_csv", "FileNotFoundError") /\ UNCHANGED cleanerVars
     ELSE IF \E f \in csv_files(dir) : dir.files[f] \in {"zero", "garbled"}
     THEN Raise("load_all_csv", "RuntimeError") /\ UNCHANGED cleanerVars
     ELSE \E content \in Inputs(csv_files(dir)) :
            /\ data' = content
            /\ loaded' = content
            /\ UNCHANGED matched_in
            /\ Goto("load_all_csv", "clean_invalid_films")
  /\ UNCHANGED <<inputVars, cleaned_data, pgVars, mongoVars>>

load_all_csv == LoadAllCsvFrom(MainInputs)

load_all_csv_any == LoadAllCsvFrom(CleanInputs)

\* clean_invalid_films: dropna on the title column of the awards and of the
\* reviews, when loaded.
invalid_films_cleaned_none(d) == d

invalid_films_cleaned(d) ==
  [n \in DOMAIN d |->
     CASE n = AWARDS -> dropna(d[n], "film")
       [] n = REVIEWS -> dropna(d[n], "movie_title")
       [] OTHER -> d[n]]

clean_invalid_films ==
  /\ pc = "clean_invalid_films"
  /\ data' = invalid_films_cleaned(data)
  /\ Goto("clean_invalid_films", "normalize_data")
  /\ UNCHANGED <<inputVars, cleaned_data, loaded, matched_in, pgVars, mongoVars>>

\* normalize_data: review_score through normalize_score; the description and
\* date columns of movies when it has them (the tables of the model have none).
data_normalized(d) ==
  [n \in DOMAIN d |->
     IF n = REVIEWS THEN assign(d[n], "review_score", "review_score", normalize_score)
     ELSE d[n]]

normalize_data ==
  /\ pc = "normalize_data"
  /\ data' = data_normalized(data)
  /\ Goto("normalize_data", "match_movie_ids")
  /\ UNCHANGED <<inputVars, cleaned_data, loaded, matched_in, pgVars, mongoVars>>

\* match_movie_ids, lines 98-130: the title columns normalized, the movies
\* deduplicated on name_clean, reviews and awards left-merged with
\* movies_unique[['id', 'name_clean']], the id column converted to Int64 and
\* the temporary columns dropped.
reconciled(df, movies, title) ==
  LET withkey == assign(df, "key_clean", title, normalize_title_paren)
      m == assign(movies, "name_clean", "name", normalize_title_plain)
      movies_unique == drop_duplicates(m, "name_clean")
      j == merge(withkey, project(movies_unique, {"id", "name_clean"}),
                 "key_clean", "name_clean")
      out == drop(j, {"key_clean", "name_clean"})
  IN assign(out, "id", "id", ToInt64)

movie_ids_matched(d) ==
  [n \in DOMAIN d |->
     CASE n = REVIEWS -> reconciled(d[n], d["movies"], "movie_title")
       [] n = AWARDS -> reconciled(d[n], d["movies"], "film")
       [] OTHER -> d[n]]

\* Lines 90-92: without the movies there is nothing to match against.
match_result_skip(d) ==
  IF "movies" \notin DOMAIN d THEN [exc |-> "", data |-> d]
  ELSE [exc |-> "", data |-> movie_ids_matched(d)]

match_result(d) ==
  IF "movies" \notin DOMAIN d THEN [exc |-> "Exception", data |-> d]
  ELSE [exc |-> "", data |-> movie_ids_matched(d)]

match_movie_ids ==
  /\ pc = "match_movie_ids"
  /\ matched_in' = data
  /\ data' = match_result(data).data
  /\ IF match_result(data).exc # ""
     THEN Raise("match_movie_ids", match_result(data).exc)
     ELSE Goto("match_movie_ids", "prepare_for_database")
  /\ UNCHANGED <<inputVars, cleaned_data, loaded, pgVars, mongoVars>>

\* prepare_for_database: id -> id_movie but for movies, the missing values
\* unified, ValueError on a dataset that is empty; run_cleaning and clean_data
\* then return self.data.
prepared_keep_id(n, df) == replace_na(df)

prepared(n, df) ==
  replace_na(IF n # "movies" /\ "id" \in df.cols THEN rename(df, "id", "id_movie") ELSE df)

has_empty_never(d) == FALSE

has_empty(d) == \E n \in DOMAIN d : empty(prepared(n, d[n]))

prepare_for_database ==
  /\ pc = "prepare_for_database"
  /\ IF has_empty(data)
     THEN /\ Raise("prepare_for_database", "ValueError")
          /\ UNCHANGED <<data, cleaned_data>>
     ELSE /\ data' = [n \in DOMAIN data |-> prepared(n, data[n])]
          /\ cleaned_data' = data'
          /\ Goto("prepare_for_database", "pg_connect")
  /\ UNCHANGED <<inputVars, loaded, matched_in, pgVars, mongoVars>>

\* ------------------------------------------------------ the two stores
MaxBatch == 2

\* pg_tables of main: (dataset, table).
pg_tables ==
  <<<<"movies", "movies">>, <<"actors", "actors">>, <<"crew", "crews">>,
    <<"countries", "countries">>, <<"genres", "genres">>,
    <<"languages", "languages">>, <<"studios", "studios">>,
    <<"themes", "themes">>, <<"releases", "releases">>, <<"posters", "posters">>>>

\* The tables create_schema creates.
SchemaTables ==
  {"movies", "actors", "countries", "crews", "genres", "languages", "posters",
   "releases", "studios", "themes", "oscars"}

\* The statements of PostgreSQLSetup.create_indexes, by position in the list.
NumPgIndexes == 27

\* The create_index calls of MongoDBSetup.create_indexes, by position: the
\* first NumReviewIndexes on reviews, the others on messages.
NumMongoIndexes == 12
NumReviewIndexes == 7

collections == <<"reviews", "oscar_awards", "messages">>

\* A relational store: schema is "none" (no public schema), "old" (what an
\* earlier run or another program left) or "new" (this run's create_schema).
\* Index 0 is an index of the old schema.
OldRow == [id |-> "0", name |-> "old"]
PgEmptyTables == [t \in SchemaTables |-> <<>>]
PgNone == [schema |-> "none", tables |-> PgEmptyTables, indexes |-> {}]
PgOld == [schema |-> "old",
          tables |-> [PgEmptyTables EXCEPT !["movies"] = <<OldRow>>],
          indexes |-> {0}]
PgNew == [schema |-> "new", tables |-> PgEmptyTables, indexes |-> {}]

\* A document store: the collections that exist with their documents, and the
\* indexes.  Index 0 is an index an earlier run left.
MongoNone == [colls |-> [c \in {} |-> <<>>], indexes |-> {}]
MongoOld == [colls |-> [c \in {"reviews", "messages"} |-> <<OldRow>>], indexes |-> {0}]

NoCall == [loader |-> "", df |-> NoTable, target |-> "", bs |-> 0, ret |-> 0,
           exc |-> "", names |-> "", batches |-> <<>>, error_batch |-> 0,
           logged_batch |-> 0,
           before |-> [pgdb |-> PgNone, pgwork |-> PgNone, pglog |-> <<>>,
                       mongodb |-> MongoNone, mongolog |-> <<>>]]

\* db[coll] with docs added; the collection is created when it does not exist.
AddDocs(db, coll, docs) ==
  LET old == db.colls
  IN [db EXCEPT !.colls =
        [c \in DOMAIN old \cup {coll} |->
           IF c = coll THEN (IF c \in DOMAIN old THEN old[c] ELSE <<>>) \o docs
           ELSE old[c]]]

Min(a, b) == IF a < b THEN a ELSE b

\* for i in range(0, len(data), batch_size): data[i:i + batch_size]
NumBatches(rows, bs) == (Len(rows) + bs - 1) \div bs
Batch_overlap(rows, bs, k) ==
  SubSeq(rows, IF k = 1 THEN 1 ELSE (k - 1) * bs, Min(k * bs, Len(rows)))

Batch(rows, bs, k) == SubSeq(rows, (k - 1) * bs + 1, Min(k * bs, Len(rows)))

\* The batches 1..k, and their rows.
Batches(rows, bs, k) == [j \in 1..k |-> Batch(rows, bs, j)]

RECURSIVE Flat(_)
Flat(ss) == IF ss = <<>> THEN <<>> ELSE Head(ss) \o Flat(Tail(ss))

FirstBatches(rows, bs, k) == Flat(Batches(rows, bs, k))

\* int(os.getenv('POSTGRES_BATCH_SIZE', '1000')) and
\* int(os.getenv('MONGO_BATCH_SIZE', '1000')): the variable unset, or set to a
\* small number.
POSTGRES_BATCH_SIZE == 1000
MONGO_BATCH_SIZE == 1000
PgBatchSizes == 1..MaxBatch \cup {POSTGRES_BATCH_SIZE}
MongoBatchSizes == 1..MaxBatch \cup {MONGO_BATCH_SIZE}

\* self.conn.rollback(): the open transaction is discarded, the session sees
\* what is committed.
rollback_none(db, work) == work

rollback(db, work) == db

\* ------------------------------------------------------ relational loader
\* PostgreSQLSetup.insert_dataframe(df, table_name) on a store whose committed
\* content is db and whose open transaction sees work.  failBatch = k > 0: the
\* k-th execute_batch raises psycopg2.Error; commitOk = FALSE: commit raises.
\* The result: the value returned, the exception raised (or ""), the store and
\* the operations sent to it.
\* Lines 201-235, what follows the guard on an empty DataFrame.
pg_insert_batches(df, table_name, bs, db, work, failBatch, commitOk) ==
  LET data_ == df.rows
      nb == NumBatches(data_, bs)
      tried == IF failBatch = 0 THEN nb ELSE failBatch
      total_inserted == Len(FirstBatches(data_, bs, nb))
      executed == IF failBatch = 0 THEN nb ELSE failBatch - 1
      work1 == [work EXCEPT !.tables[table_name] = @ \o FirstBatches(data_, bs, executed)]
      executes == [k \in 1..tried |-> "execute_batch"]
      batches == Batches(data_, bs, tried)
  IN IF failBatch # 0
     THEN [ret |-> 0, exc |-> "RuntimeError", names |-> table_name, db |-> db,
           work |-> rollback(db, work1), batches |-> batches,
           log |-> executes \o <<"rollback">>]
     ELSE IF ~commitOk
     THEN [ret |-> 0, exc |-> "RuntimeError", names |-> table_name, db |-> db,
           work |-> rollback(db, work1), batches |-> batches,
           log |-> executes \o <<"commit", "rollback">>]
     ELSE IF total_inserted = 0
     THEN [ret |-> 0, exc |-> "Exception", names |-> table_name, db |-> work1,
           work |-> rollback(work1, work1), batches |-> batches,
           log |-> executes \o <<"commit", "rollback">>]
     ELSE [ret |-> total_inserted, exc |-> "", names |-> "", db |-> work1,
           work |-> work1, batches |-> batches,
           log |-> executes \o <<"commit">>]

pg_insert_dataframe_noguard(df, table_name, bs, db, work, failBatch, commitOk) ==
  pg_insert_batches(df, table_name, bs, db, work, failBatch, commitOk)

pg_insert_dataframe(df, table_name, bs, db, work, failBatch, commitOk) ==
  IF empty(df)
  THEN [ret |-> 0, exc |-> "", names |-> "", db |-> db, work |-> work,
        batches |-> <<>>, log |-> <<>>]
  ELSE pg_insert_batches(df, table_name, bs, db, work, failBatch, commitOk)

\* PostgreSQLSetup() and connect(): psycopg2.connect, SELECT version(), the
\* write test on a temporary table, commit.  OperationalError comes from
\* psycopg2.connect (no connection is left); the other errors come from a
\* statement on the open connection.
ConnectError(o) ==
  CASE o = "OperationalError" -> "ConnectionError"
    [] o = "InsufficientPrivilege" -> "PermissionError"
    [] OTHER -> "RuntimeError"

pg_connect ==
  /\ pc = "pg_connect"
  /\ \E o \in {"ok", "OperationalError", "InsufficientPrivilege", "Error"},
        bs \in PgBatchSizes :
       /\ pg_batch' = bs
       /\ pg_total' = 0
       /\ pg_i' = 1
       /\ pgconn' = IF o = "OperationalError" THEN "none" ELSE "open"
       /\ pglog' = IF o = "ok" THEN pglog \o <<"connect", "commit">>
                   ELSE IF o = "OperationalError" THEN pglog
                   ELSE pglog \o <<"connect">>
       /\ IF o = "ok" THEN Goto("pg_connect", "pg_create_schema")
          ELSE Raise("pg_connect", ConnectError(o))
  /\ UNCHANGED <<pgdb, pgwork, inputVars, cleaned_data, cleanerVars, mongoVars>>

\* create_schema: DROP SCHEMA public CASCADE, CREATE SCHEMA, the CREATE TABLEs,
\* commit; on psycopg2.Error rollback and re-raise.
schema_created_norollback(db, o) == PgNew

schema_created(db, o) == IF o = "ok" THEN PgNew ELSE rollback(db, PgNew)

pg_create_schema ==
  /\ pc = "pg_create_schema"
  /\ \E o \in {"ok", "execute", "commit"} :
       /\ pgdb' = schema_created(pgdb, o)
       /\ pgwork' = pgdb'
       /\ pglog' = pglog \o (CASE o = "ok" -> <<"schema", "commit">>
                               [] o = "execute" -> <<"schema", "rollback">>
                               [] OTHER -> <<"schema", "commit", "rollback">>)
       /\ IF o = "ok" THEN Goto("pg_create_schema", "pg_insert")
          ELSE Raise("pg_create_schema", "psycopg2.Error")
  /\ UNCHANGED <<pgconn, pg_batch, pg_i, pg_total, inputVars, cleaned_data,
                 cleanerVars, mongoVars>>

\* Where main goes after the i-th iteration of the loop over pg_tables: the
\* next iteration, and create_indexes (line 158) once the loop has ended.
after_dataset_document_load(i) ==
  IF i = Len(pg_tables) THEN "mongo_connect" ELSE "pg_insert"

after_dataset_index_first(i) == "pg_create_indexes"

after_dataset(i) ==
  IF i = Len(pg_tables) THEN "pg_create_indexes" ELSE "pg_insert"

\* One iteration of `for data_key, table_name in pg_tables` (lines 139-156).
pg_insert ==
  /\ pc = "pg_insert"
  /\ LET data_key == pg_tables[pg_i][1]
         table_name == pg_tables[pg_i][2]
         next == after_dataset(pg_i)
     IN IF data_key \in DOMAIN cleaned_data /\ empty(cleaned_data[data_key])
        THEN \* continue
             /\ pg_i' = pg_i + 1
             /\ Goto("pg_insert", next)
             /\ UNCHANGED <<pgconn, pgdb, pgwork, pglog, pg_total>>
        ELSE IF data_key \in DOMAIN cleaned_data
        THEN \E failBatch \in 0..NumBatches(cleaned_data[data_key].rows, pg_batch),
                commitOk \in BOOLEAN :
               LET r == pg_insert_dataframe(cleaned_data[data_key], table_name, pg_batch,
                                            pgdb, pgwork, failBatch, commitOk)
               IN /\ pgdb' = r.db
                  /\ pgwork' = r.work
                  /\ pglog' = pglog \o r.log
                  /\ IF r.exc # ""
                     THEN /\ Raise("pg_insert", r.exc)
                          /\ UNCHANGED <<pgconn, pg_i, pg_total>>
                     ELSE IF r.ret = 0 \/ pg_total + r.ret = 0
                     THEN /\ Raise("pg_insert", "Exception")
                          /\ pgconn' = "closed"
                          /\ UNCHANGED <<pg_i, pg_total>>
                     ELSE /\ pg_total' = pg_total + r.ret
                          /\ pg_i' = pg_i + 1
                          /\ Goto("pg_insert", next)
                          /\ UNCHANGED pgconn
        ELSE IF pg_total = 0
        THEN /\ Raise("pg_insert", "Exception")
             /\ pgconn' = "closed"
             /\ UNCHANGED <<pgdb, pgwork, pglog, pg_i, pg_total>>
        ELSE /\ pg_i' = pg_i + 1
             /\ Goto("pg_insert", next)
             /\ UNCHANGED <<pgconn, pgdb, pgwork, pglog, pg_total>>
  /\ UNCHANGED <<pg_batch, inputVars, cleaned_data, cleanerVars, mongoVars>>

\* create_indexes: every statement is tried, a psycopg2.Error is logged and
\* skipped; then commit.  firstFail = k > 0: statement k fails, which aborts
\* the transaction: the server refuses every later statement and turns the
\* commit into a rollback (no error).  commitOk = FALSE: the commit raises.
\* The log holds the outcome of each statement: "index" or "index_error".
\* The statement that fails first is none, the first, the second, CREATE
\* EXTENSION (the last but one) or the last.
FailingStatements == {0, 1, 2, NumPgIndexes - 1, NumPgIndexes}

pg_create_indexes ==
  /\ pc = "pg_create_indexes"
  /\ \E firstFail \in FailingStatements, commitOk \in BOOLEAN :
       LET created == IF firstFail = 0 THEN 1..NumPgIndexes ELSE 1..(firstFail - 1)
           kept == IF firstFail = 0 /\ commitOk THEN created ELSE {}
           outcomes == [k \in 1..NumPgIndexes |->
                          IF k \in created THEN "index" ELSE "index_error"]
       IN /\ pgwork' = [pgwork EXCEPT !.indexes = @ \cup kept]
          /\ pgdb' = [pgdb EXCEPT !.indexes = @ \cup kept]
          /\ pglog' = pglog \o <<"indexes">> \o outcomes \o <<"commit">>
          /\ IF commitOk THEN Goto("pg_create_indexes", "pg_cleanup")
             ELSE Raise("pg_create_indexes", "psycopg2.Error")
  /\ UNCHANGED <<pgconn, pg_batch, pg_i, pg_total, inputVars, cleaned_data,
                 cleanerVars, mongoVars>>

\* cleanup: cursor and connection closed, any error swallowed.
pg_cleanup ==
  /\ pc = "pg_cleanup"
  /\ pgconn' = "closed"
  /\ Goto("pg_cleanup", "mongo_connect")
  /\ UNCHANGED <<pg_batch, pgdb, pgwork, pglog, pg_i, pg_total, inputVars,
                 cleaned_data, cleanerVars, mongoVars>>

\* -------------------------------------------------------- document loader
\* MongoDBSetup.insert_dataframe(df, collection_name).  failBatch = k > 0: the
\* k-th insert_many raises, after `partial` documents of that batch were
\* written (ordered=False); the error is re-raised as RuntimeError.
\* The batch index in the message of the RuntimeError (line 113), 0 for none:
\* the message holds the collection's name and the driver's text.  The index
\* i // batch_size + 1 is in the line logged before the raise (line 112).
error_batch_index(failBatch) == 0
logged_batch_index(failBatch) == failBatch

\* Lines 96-119, what follows the guard on an empty DataFrame.
mongo_insert_batches(df, collection_name, bs, db, failBatch, partial) ==
  LET documents == replace_na(df).rows
      nb == NumBatches(documents, bs)
      done == IF failBatch = 0 THEN nb ELSE failBatch - 1
      part == IF failBatch = 0 THEN <<>>
              ELSE SubSeq(Batch(documents, bs, failBatch), 1,
                          Min(partial, Len(Batch(documents, bs, failBatch))))
      written == FirstBatches(documents, bs, done) \o part
      tried == IF failBatch = 0 THEN nb ELSE failBatch
  IN [ret |-> IF failBatch = 0 THEN Len(FirstBatches(documents, bs, nb)) ELSE 0,
      exc |-> IF failBatch = 0 THEN "" ELSE "RuntimeError",
      names |-> IF failBatch = 0 THEN "" ELSE collection_name,
      error_batch |-> error_batch_index(failBatch),
      logged_batch |-> logged_batch_index(failBatch),
      batches |-> Batches(documents, bs, tried),
      db |-> IF tried = 0 THEN db ELSE AddDocs(db, collection_name, written),
      log |-> [k \in 1..tried |-> "insert_many"]]

mongo_insert_dataframe(df, collection_name, bs, db, failBatch, partial) ==
  IF empty(df)
  THEN [ret |-> 0, exc |-> "", names |-> "", error_batch |-> 0, logged_batch |-> 0,
        batches |-> <<>>, db |-> db, log |-> <<>>]
  ELSE mongo_insert_batches(df, collection_name, bs, db, failBatch, partial)

\* MongoDBSetup() and connect(): ping, then the write test on the collection
\* test_permissions.  Whatever fails, the outer `except Exception` re-raises
\* it as RuntimeError.
\* The error connect raises when step o fails: the inner handlers raise
\* ConnectionError (ping) and PermissionError (write test), and the outer
\* `except Exception` re-raises whatever reaches it as RuntimeError.
mongo_inner_error(o) ==
  CASE o = "ping" -> "ConnectionError"
    [] o = "permission" -> "PermissionError"
    [] OTHER -> "RuntimeError"

mongo_connect_error(o) ==
  IF IsException(mongo_inner_error(o)) THEN "RuntimeError" ELSE mongo_inner_error(o)

write_tested_no_delete(db) == AddDocs(db, "test_permissions", <<[test |-> "permissions"]>>)

write_tested(db) == AddDocs(db, "test_permissions", <<>>)

mongo_connect ==
  /\ pc = "mongo_connect"
  /\ \E o \in {"ok", "ping", "permission"}, bs \in MongoBatchSizes :
       /\ mongo_batch' = bs
       /\ mongo_total' = 0
       /\ mongoclient' = "open"
       /\ mongodb' = IF o = "ok" THEN write_tested(mongodb) ELSE mongodb
       /\ mongolog' = IF o = "ok" THEN mongolog \o <<"ping", "insert_one", "delete_one">>
                      ELSE IF o = "ping" THEN mongolog \o <<"ping">>
                      ELSE mongolog \o <<"ping", "insert_one">>
       /\ IF o = "ok" THEN Goto("mongo_connect", "mongo_create_collections")
          ELSE Raise("mongo_connect", mongo_connect_error(o))
  /\ UNCHANGED <<inputVars, cleaned_data, cleanerVars, pgVars>>

\* create_collections: drop_database, then create_collection for each name;
\* the first failure is re-raised.  dropOk = FALSE: drop_database fails;
\* failAt = k > 0: the k-th creation fails.
\* The namespace after drop_database and the first n creations.
collections_created_nodrop(db, n) ==
  [db EXCEPT !.colls = [c \in DOMAIN db.colls \cup {collections[i] : i \in 1..n} |->
                          IF c \in DOMAIN db.colls THEN db.colls[c] ELSE <<>>]]

collections_created(db, n) ==
  [colls |-> [c \in {collections[i] : i \in 1..n} |-> <<>>], indexes |-> {}]

mongo_create_collections ==
  /\ pc = "mongo_create_collections"
  /\ \E dropOk \in BOOLEAN, failAt \in 0..Len(collections) :
       LET n == IF failAt = 0 THEN Len(collections) ELSE failAt - 1
       IN /\ mongodb' = IF dropOk THEN collections_created(mongodb, n) ELSE mongodb
          /\ mongolog' = mongolog \o <<"drop_database">>
                           \o [k \in 1..(IF dropOk THEN Min(n + 1, Len(collections)) ELSE 0) |->
                                 "create_collection"]
          /\ IF dropOk /\ failAt = 0
             THEN Goto("mongo_create_collections", "mongo_insert_reviews")
             ELSE Raise("mongo_create_collections", "Exception")
  /\ UNCHANGED <<mongoclient, mongo_batch, mongo_total, inputVars, cleaned_data,
                 cleanerVars, pgVars>>

\* Lines 180-186 and 188-194: one collection loaded from one dataset, when
\* main has it; a zero count closes the client and raises.
MongoLoad(stage, data_key, collection_name, next) ==
  IF data_key \notin DOMAIN cleaned_data
  THEN /\ Goto(stage, next)
       /\ UNCHANGED <<mongoclient, mongodb, mongolog, mongo_total>>
  ELSE \E failBatch \in 0..NumBatches(cleaned_data[data_key].rows, mongo_batch),
          partial \in 0..Min(mongo_batch, Len(cleaned_data[data_key].rows)) :
         LET r == mongo_insert_dataframe(cleaned_data[data_key], collection_name,
                                         mongo_batch, mongodb, failBatch, partial)
         IN /\ mongodb' = r.db
            /\ mongolog' = mongolog \o r.log
            /\ IF r.exc # ""
               THEN /\ Raise(stage, r.exc)
                    /\ UNCHANGED <<mongoclient, mongo_total>>
               ELSE IF r.ret = 0
               THEN /\ Raise(stage, "Exception")
                    /\ mongoclient' = "closed"
                    /\ UNCHANGED mongo_total
               ELSE /\ mongo_total' = mongo_total + r.ret
                    /\ Goto(stage, next)
                    /\ UNCHANGED mongoclient

mongo_insert_reviews ==
  /\ pc = "mongo_insert_reviews"
  /\ MongoLoad("mongo_insert_reviews", REVIEWS, "reviews", "mongo_insert_oscars")
  /\ UNCHANGED <<mongo_batch, inputVars, cleaned_data, cleanerVars, pgVars>>

mongo_insert_oscars ==
  /\ pc = "mongo_insert_oscars"
  /\ MongoLoad("mongo_insert_oscars", AWARDS, "oscar_awards", "mongo_check_total")
  /\ UNCHANGED <<mongo_batch, inputVars, cleaned_data, cleanerVars, pgVars>>

\* Lines 196-199.
mongo_check_total ==
  /\ pc = "mongo_check_total"
  /\ IF mongo_total = 0
     THEN Raise("mongo_check_total", "Exception") /\ mongoclient' = "closed"
     ELSE Goto("mongo_check_total", "mongo_create_indexes") /\ UNCHANGED mongoclient
  /\ UNCHANGED <<mongo_batch, mongodb, mongolog, mongo_total, inputVars, cleaned_data,
                 cleanerVars, pgVars>>

\* The collection the k-th create_index call is sent to.
IndexCollection(k) == IF k <= NumReviewIndexes THEN "reviews" ELSE "messages"

\* create_indexes: the calls in order; the first failure is re-raised as
\* RuntimeError and the indexes created before it stay.
index_error_raised_never(failAt) == FALSE

index_error_raised(failAt) == failAt # 0

mongo_create_indexes ==
  /\ pc = "mongo_create_indexes"
  /\ \E failAt \in 0..NumMongoIndexes :
       LET n == IF failAt = 0 THEN NumMongoIndexes ELSE failAt - 1
           RECURSIVE touch(_, _)
           touch(db, k) == IF k > n THEN db
                           ELSE touch(AddDocs(db, IndexCollection(k), <<>>), k + 1)
       IN /\ mongodb' = [touch(mongodb, 1) EXCEPT !.indexes = @ \cup 1..n]
          /\ mongolog' = mongolog \o <<"create_indexes">>
          /\ IF index_error_raised(failAt)
             THEN Raise("mongo_create_indexes", "RuntimeError")
             ELSE Goto("mongo_create_indexes", "mongo_cleanup")
  /\ UNCHANGED <<mongoclient, mongo_batch, mongo_total, inputVars, cleaned_data,
                 cleanerVars, pgVars>>

\* cleanup, then main logs the end of the setup and returns: exit status 0.
mongo_cleanup ==
  /\ pc = "mongo_cleanup"
  /\ mongoclient' = "closed"
  /\ pc' = "done"
  /\ exit_status' = 0
  /\ trace' = Append(trace, "mongo_cleanup")
  /\ UNCHANGED <<failed, mongo_batch, mongodb, mongolog, mongo_total, inputVars,
                 cleaned_data, cleanerVars, pgVars>>

\* The user interrupts the run while stage pc is starting.
KeyboardInterrupt ==
  /\ pc \notin {"done", "exit"}
  /\ Raise(pc, "KeyboardInterrupt")
  /\ UNCHANGED <<argv_given, missing_vars, dir, stores0, call, score_call, cleaned_data, cleanerVars, pgVars, mongoVars>>

\* ------------------------------------------------------- specifications
Init ==
  /\ pc = "validate_environment"
  /\ argv_given \in BOOLEAN
  /\ missing_vars = {}
  /\ dir = NoDir
  /\ data = NoData
  /\ loaded = NoData
  /\ matched_in = NoData
  /\ cleaned_data = NoData
  /\ exit_status = -1
  /\ trace = <<>>
  /\ failed = NoFailure
  /\ pgconn = "none"
  /\ pg_batch = 0
  /\ pgdb \in {PgNone, PgOld}
  /\ pgwork = pgdb
  /\ pglog = <<>>
  /\ pg_i = 0
  /\ pg_total = 0
  /\ mongoclient = "none"
  /\ mongo_batch = 0
  /\ mongodb \in {MongoNone, MongoOld}
  /\ mongolog = <<>>
  /\ mongo_total = 0
  /\ stores0 = [pg |-> pgdb, mongo |-> mongodb]
  /\ call = NoCall
  /\ score_call = NoScoreCall

Next ==
  \/ validate_environment
  \/ validate_data_directory
  \/ DataCleaner
  \/ load_all_csv
  \/ clean_invalid_films
  \/ normalize_data
  \/ match_movie_ids
  \/ prepare_for_database
  \/ pg_connect
  \/ pg_create_schema
  \/ pg_insert
  \/ pg_create_indexes
  \/ pg_cleanup
  \/ mongo_connect
  \/ mongo_create_collections
  \/ mongo_insert_reviews
  \/ mongo_insert_oscars
  \/ mongo_check_total
  \/ mongo_create_indexes
  \/ mongo_cleanup
  \/ KeyboardInterrupt

Spec == Init /\ [][Next]_vars

\* The cleaner on any directory: main at its call of clean_data (line 107),
\* which lists and reads the directory anew, whatever validation saw.
InitClean ==
  /\ pc = "DataCleaner"
  /\ argv_given = FALSE
  /\ missing_vars = {}
  /\ dir \in CleanDirs
  /\ data = NoData
  /\ loaded = NoData
  /\ matched_in = NoData
  /\ cleaned_data = NoData
  /\ exit_status = -1
  /\ trace = <<"validate_environment", "validate_data_directory">>
  /\ failed = NoFailure
  /\ pgconn = "none"
  /\ pg_batch = 0
  /\ pgdb \in {PgNone, PgOld}
  /\ pgwork = pgdb
  /\ pglog = <<>>
  /\ pg_i = 0
  /\ pg_total = 0
  /\ mongoclient = "none"
  /\ mongo_batch = 0
  /\ mongodb = MongoOld
  /\ mongolog = <<>>
  /\ mongo_total = 0
  /\ stores0 = [pg |-> pgdb, mongo |-> mongodb]
  /\ call = NoCall
  /\ score_call = NoScoreCall

NextClean ==
  \/ DataCleaner
  \/ load_all_csv_any
  \/ clean_invalid_films
  \/ normalize_data
  \/ match_movie_ids
  \/ prepare_for_database

SpecClean == InitClean /\ [][NextClean]_vars

\* The relational load by itself: main at line 118 with any mapping of
\* prepared datasets.  A dataset is missing from the mapping, empty, or holds
\* one row; the first two datasets and the last one vary by themselves, the
\* others together.
LoadStatus == {"missing", "empty", "rows"}

LoadData(st) ==
  [k \in {d \in Structured : st[d] # "missing"} |->
     prepared(k, OtherTable(IF st[k] = "empty" THEN 0 ELSE 1, TRUE))]

LoadMappings ==
  {LoadData([k \in Structured |->
               CASE k = pg_tables[1][1] -> a
                 [] k = pg_tables[2][1] -> b
                 [] k = pg_tables[Len(pg_tables)][1] -> c
                 [] OTHER -> d]) :
     a \in LoadStatus, b \in LoadStatus, c \in LoadStatus, d \in LoadStatus}

InitLoad ==
  /\ pc = "pg_connect"
  /\ argv_given = FALSE
  /\ missing_vars = {}
  /\ dir = NoDir
  /\ cleaned_data \in LoadMappings
  /\ data = cleaned_data
  /\ loaded = NoData
  /\ matched_in = NoData
  /\ exit_status = -1
  /\ trace = <<>>
  /\ failed = NoFailure
  /\ pgconn = "none"
  /\ pg_batch = 0
  /\ pgdb \in {PgNone, PgOld}
  /\ pgwork = pgdb
  /\ pglog = <<>>
  /\ pg_i = 0
  /\ pg_total = 0
  /\ mongoclient = "none"
  /\ mongo_batch = 0
  /\ mongodb = MongoOld
  /\ mongolog = <<>>
  /\ mongo_total = 0
  /\ stores0 = [pg |-> pgdb, mongo |-> mongodb]
  /\ call = NoCall
  /\ score_call = NoScoreCall

NextLoad ==
  \/ pg_connect
  \/ pg_create_schema
  \/ pg_insert
  \/ pg_create_indexes
  \/ pg_cleanup

SpecLoad == InitLoad /\ [][NextLoad]_vars

\* The loaders by themselves: insert_dataframe called on a connected loader
\* with any table, at most MaxCalls times.
MaxCalls == 1

LoaderTables ==
  {NoTable} \cup {OtherTable(n, TRUE) : n \in 0..MaxRows}

\* A transaction may be open when insert_dataframe is called.
PendingRow == [id |-> "9", name |-> "pending"]

InitInsert ==
  /\ pc = "loader"
  /\ argv_given = FALSE
  /\ missing_vars = {}
  /\ dir = NoDir
  /\ data = NoData
  /\ loaded = NoData
  /\ matched_in = NoData
  /\ cleaned_data = NoData
  /\ exit_status = -1
  /\ trace = <<>>
  /\ failed = NoFailure
  /\ pgconn = "open"
  /\ pg_batch \in PgBatchSizes
  /\ pgdb = PgNew
  /\ pgwork \in {pgdb, [pgdb EXCEPT !.tables["movies"] = <<PendingRow>>]}
  /\ pglog = <<>>
  /\ pg_i = 0
  /\ pg_total = 0
  /\ mongoclient = "open"
  /\ mongo_batch \in MongoBatchSizes
  /\ mongodb \in {MongoNone, MongoOld}
  /\ mongolog = <<>>
  /\ mongo_total = 0
  /\ stores0 = [pg |-> pgdb, mongo |-> mongodb]
  /\ call = NoCall
  /\ score_call = NoScoreCall

Before == [pgdb |-> pgdb, pgwork |-> pgwork, pglog |-> pglog,
           mongodb |-> mongodb, mongolog |-> mongolog]

\* postgres.insert_dataframe(df, table_name)
PgInsertCall ==
  /\ pc = "loader"
  /\ Len(trace) < MaxCalls
  /\ \E df \in LoaderTables, table_name \in {"movies", "actors"}, commitOk \in BOOLEAN :
       \E failBatch \in 0..NumBatches(df.rows, pg_batch) :
         LET r == pg_insert_dataframe(df, table_name, pg_batch, pgdb, pgwork,
                                      failBatch, commitOk)
         IN /\ pgdb' = r.db
            /\ pgwork' = r.work
            /\ pglog' = pglog \o r.log
            /\ call' = [loader |-> "postgres", df |-> df, target |-> table_name,
                        bs |-> pg_batch, ret |-> r.ret, exc |-> r.exc,
                        names |-> r.names, batches |-> r.batches,
                        error_batch |-> 0, logged_batch |-> 0, before |-> Before]
  /\ trace' = Append(trace, "pg_insert_dataframe")
  /\ UNCHANGED <<pc, exit_status, failed, cleaned_data, argv_given, missing_vars, dir,
                 stores0, score_call, cleanerVars, pgconn, pg_batch, pg_i, pg_total, mongoVars>>

\* mongo.insert_dataframe(df, collection_name)
MongoInsertCall ==
  /\ pc = "loader"
  /\ Len(trace) < MaxCalls
  /\ \E df \in LoaderTables, collection_name \in {"reviews", "oscar_awards"} :
       \E failBatch \in 0..NumBatches(df.rows, mongo_batch),
          partial \in 0..Min(mongo_batch, Len(df.rows)) :
         LET r == mongo_insert_dataframe(df, collection_name, mongo_batch, mongodb,
                                         failBatch, partial)
         IN /\ mongodb' = r.db
            /\ mongolog' = mongolog \o r.log
            /\ call' = [loader |-> "mongo", df |-> df, target |-> collection_name,
                        bs |-> mongo_batch, ret |-> r.ret, exc |-> r.exc,
                        names |-> r.names, batches |-> r.batches,
                        error_batch |-> r.error_batch,
                        logged_batch |-> r.logged_batch, before |-> Before]
  /\ trace' = Append(trace, "mongo_insert_dataframe")
  /\ UNCHANGED <<pc, exit_status, failed, cleaned_data, argv_given, missing_vars, dir,
                 stores0, score_call, cleanerVars, pgVars, mongoclient, mongo_batch, mongo_total>>

NextInsert == PgInsertCall \/ MongoInsertCall

SpecInsert == InitInsert /\ [][NextInsert]_vars


\* normalize_score by itself: applied to a score, then to its result read as
\* a plain number.  The scores: the plain numbers -0.25, 0, 0.25, ... up to
\* MaxQuarter quarters, the fractions of numerator -1..MaxNumerator and
\* denominator 0..MaxDenominator, the letter grades and an unknown letter.
MaxQuarter == 41
MaxNumerator == 11
MaxDenominator == 10

Grades == {"A", "A-", "B+", "B", "B-", "C+", "C", "C-", "D+", "D", "D-", "F", "Z"}

Scores ==
  {Num(25 * k) : k \in -1..MaxQuarter}
    \cup {Frac(n, d) : n \in -1..MaxNumerator, d \in 0..MaxDenominator}
    \cup {Letter(x) : x \in Grades}

InitScore ==
  /\ pc = "normalize_score"
  /\ argv_given = FALSE
  /\ missing_vars = {}
  /\ dir = NoDir
  /\ data = NoData
  /\ loaded = NoData
  /\ matched_in = NoData
  /\ cleaned_data = NoData
  /\ exit_status = -1
  /\ trace = <<>>
  /\ failed = NoFailure
  /\ pgconn = "none"
  /\ pg_batch = 0
  /\ pgdb = PgNone
  /\ pgwork = pgdb
  /\ pglog = <<>>
  /\ pg_i = 0
  /\ pg_total = 0
  /\ mongoclient = "none"
  /\ mongo_batch = 0
  /\ mongodb = MongoNone
  /\ mongolog = <<>>
  /\ mongo_total = 0
  /\ stores0 = [pg |-> pgdb, mongo |-> mongodb]
  /\ call = NoCall
  /\ score_call \in {[NoScoreCall EXCEPT !.raw = e] : e \in Scores}

\* normalize_score(raw)
ScoreOnce ==
  /\ pc = "normalize_score" /\ score_call.step = 0
  /\ score_call' = [score_call EXCEPT !.once = normalize_score_value(score_call.raw),
                                      !.step = 1]
  /\ UNCHANGED <<pc, exit_status, trace, failed, cleaned_data, argv_given, missing_vars,
                 dir, stores0, call, cleanerVars, pgVars, mongoVars>>

\* normalize_score(normalize_score(raw))
ScoreTwice ==
  /\ pc = "normalize_score" /\ score_call.step = 1
  /\ score_call' = [score_call EXCEPT !.twice = normalize_score_value(score_call.once),
                                      !.step = 2]
  /\ UNCHANGED <<pc, exit_status, trace, failed, cleaned_data, argv_given, missing_vars,
                 dir, stores0, call, cleanerVars, pgVars, mongoVars>>

NextScore == ScoreOnce \/ ScoreTwice

SpecScore == InitScore /\ [][NextScore]_vars

\* ================================================================ claims
InTrace(stage) == \E i \in 1..Len(trace) : trace[i] = stage

\* Neither store was connected to, read or written.
StoresUntouched ==
  /\ pgconn = "none" /\ mongoclient = "none"
  /\ pgdb = stores0.pg /\ pgwork = stores0.pg /\ mongodb = stores0.mongo
  /\ pglog = <<>> /\ mongolog = <<>>

RECURSIVE SumLen(_, _)
SumLen(f, S) ==
  IF S = {} THEN 0
  ELSE LET x == CHOOSE y \in S : TRUE IN Len(f[x]) + SumLen(f, S \ {x})

PgRows(db) == SumLen(db.tables, DOMAIN db.tables)
MongoDocs(db) == SumLen(db.colls, DOMAIN db.colls)

\* C1: a run ends successfully (main returns, exit status 0) only if the total
\* of rows inserted in the relational store and the total of documents
\* inserted in the document store are both greater than zero; the totals are
\* the numbers of rows and documents the stores hold.
C1_SuccessNeedsBothTotals ==
  (pc = "done" \/ exit_status = 0) =>
     /\ pg_total > 0 /\ mongo_total > 0
     /\ pg_total = PgRows(pgdb) /\ mongo_total = MongoDocs(mongodb)

C1_Witness == pc = "done" /\ exit_status = 0 /\ pg_total > 0 /\ mongo_total > 0

\* C2: a run in which a stage raises, or which the user interrupts, ends with
\* exit status 1, and the stage that failed is the last one that ran.
C2_FailureExitsOne ==
  failed.stage # "" =>
     /\ pc = "exit" /\ exit_status = 1
     /\ trace[Len(trace)] = failed.stage

C2_Witness ==
  /\ failed.stage = "mongo_create_indexes" /\ failed.exc = "RuntimeError"
  /\ exit_status = 1

\* C3: a missing or empty required variable, a data directory that does not
\* exist, or a required file that is missing or of size zero ends the run with
\* a non-zero status before the cleaner is called (no dataset is read) and
\* before either store is connected to.
PreconditionFails ==
  \/ InTrace("validate_environment") /\ missing_vars # {}
  \/ /\ InTrace("validate_data_directory")
     /\ \/ ~dir.exists
        \/ \E f \in RequiredNames : dir.files[f] \in {"missing", "zero"}

C3_PreconditionFailureIsEarly ==
  PreconditionFails =>
     /\ exit_status \notin {-1, 0}
     /\ ~InTrace("DataCleaner") /\ ~InTrace("load_all_csv")
     /\ data = NoData /\ cleaned_data = NoData
     /\ StoresUntouched

C3_Witness ==
  /\ pc = "exit" /\ failed = [stage |-> "validate_data_directory", exc |-> "SystemExit"]
  /\ dir.exists /\ missing_vars = {}
  /\ \E f \in RequiredNames : dir.files[f] = "zero"

\* C4: when the loaded data holds no movies dataset, match_movie_ids raises,
\* clean_data returns nothing and the run exits with status 1 without either
\* store being connected to or modified.
MoviesAbsentAtMatch == InTrace("match_movie_ids") /\ "movies" \notin DOMAIN matched_in

C4_NoMoviesAborts ==
  MoviesAbsentAtMatch =>
     /\ failed = [stage |-> "match_movie_ids", exc |-> "Exception"]
     /\ pc = "exit" /\ exit_status = 1
     /\ cleaned_data = NoData /\ ~InTrace("prepare_for_database")
     /\ StoresUntouched

C4_Witness ==
  /\ MoviesAbsentAtMatch /\ REVIEWS \in DOMAIN matched_in
  /\ Len(matched_in[REVIEWS].rows) > 0

\* The reconciled datasets, once match_movie_ids has returned.
Matched == InTrace("match_movie_ids") /\ failed.stage # "match_movie_ids"
Dependents == {REVIEWS, AWARDS} \cap DOMAIN data
TitleColumn(n) == IF n = REVIEWS THEN "movie_title" ELSE "film"
RowId(r) == IF "id" \in DOMAIN r THEN r["id"] ELSE r["id_movie"]

\* The positions of the movies whose normalized name is the normalized title t.
Candidates(t) ==
  {j \in 1..Len(data["movies"].rows) :
     normalize_title(data["movies"].rows[j]["name"], FALSE) = normalize_title(t, TRUE)}

FirstOf(S) == CHOOSE j \in S : \A k \in S : j <= k

\* C5: a review or award row whose normalized title is the normalized name of
\* one or several movies carries the id of the first of them in load order:
\* never a null, never the id of a later duplicate.
C5_FirstDuplicateIsTarget ==
  Matched =>
    \A n \in Dependents : \A i \in 1..Len(data[n].rows) :
      LET c == Candidates(data[n].rows[i][TitleColumn(n)])
      IN c # {} => RowId(data[n].rows[i]) = data["movies"].rows[FirstOf(c)]["id"]

C5_Witness ==
  /\ Matched /\ pc = "prepare_for_database" /\ REVIEWS \in DOMAIN data
  /\ \E i \in 1..Len(data[REVIEWS].rows) :
       /\ Cardinality(Candidates(data[REVIEWS].rows[i]["movie_title"])) >= 2
       /\ data[REVIEWS].rows[i]["id"] = "2"
       /\ data["movies"].rows[1]["id"] = "2"

\* C6: match_movie_ids gives the reviews and the awards one output row per
\* input row, in order and with the input's cells; a row whose normalized title
\* is no movie's normalized name is present with a null id.
C6_RowsPreserved ==
  (Matched /\ cleaned_data = NoData) =>
    \A n \in Dependents :
      /\ Len(data[n].rows) = Len(matched_in[n].rows)
      /\ \A i \in 1..Len(data[n].rows) :
           /\ \A c \in matched_in[n].cols : data[n].rows[i][c] = matched_in[n].rows[i][c]
           /\ Candidates(data[n].rows[i][TitleColumn(n)]) = {} => isna(data[n].rows[i]["id"])

C6_Witness ==
  /\ Matched /\ pc = "prepare_for_database" /\ REVIEWS \in DOMAIN data
  /\ Len(data[REVIEWS].rows) = MaxReviews
  /\ \E i \in 1..Len(data[REVIEWS].rows) : data[REVIEWS].rows[i]["id"] = NA
  /\ \E i \in 1..Len(data[REVIEWS].rows) :
       Cardinality(Candidates(data[REVIEWS].rows[i]["movie_title"])) >= 2

\* out holds exactly the rows of in whose cell in col is present, in order.
OnlyAbsentDropped(out, in, col) ==
  LET present(i) == in.rows[i][col] \notin {NaN, NA, None}
      rank(i) == Cardinality({j \in 1..i : present(j)})
  IN /\ out.cols = in.cols
     /\ Len(out.rows) = Cardinality({i \in 1..Len(in.rows) : present(i)})
     /\ \A i \in 1..Len(in.rows) : present(i) => out.rows[rank(i)] = in.rows[i]

\* C7: clean_invalid_films removes from the awards and the reviews exactly the
\* rows without a title, keeps every row that has one, and leaves every other
\* dataset as it was loaded.
C7_OnlyUntitledRowsDropped ==
  pc = "normalize_data" =>
    /\ DOMAIN data = DOMAIN loaded
    /\ \A n \in DOMAIN data :
         IF n \in {REVIEWS, AWARDS}
         THEN OnlyAbsentDropped(data[n], loaded[n], TitleColumn(n))
         ELSE data[n] = loaded[n]

C7_Witness ==
  /\ pc = "normalize_data" /\ {REVIEWS, AWARDS, "movies"} \subseteq DOMAIN data
  /\ Len(loaded[REVIEWS].rows) = 2 /\ Len(data[REVIEWS].rows) = 1
  /\ Len(data[AWARDS].rows) = 1 /\ data[AWARDS].rows[1]["film"] = "(("

\* C8: prepare_for_database gives every dataset but movies that had a column
\* id a column id_movie with the same cells (nulls unified) and no column id;
\* movies keeps its column id.
C8_IdRenamedButForMovies ==
  [][(pc = "prepare_for_database" /\ pc' = "pg_connect") =>
       /\ \A n \in DOMAIN data :
            (n # "movies" /\ "id" \in data[n].cols) =>
               /\ "id_movie" \in cleaned_data'[n].cols
               /\ "id" \notin cleaned_data'[n].cols
               /\ \A i \in 1..Len(data[n].rows) :
                    \/ cleaned_data'[n].rows[i]["id_movie"] = data[n].rows[i]["id"]
                    \/ /\ isna(data[n].rows[i]["id"])
                       /\ cleaned_data'[n].rows[i]["id_movie"] = None
       /\ "id" \in cleaned_data'["movies"].cols
       /\ "id_movie" \notin cleaned_data'["movies"].cols
       /\ \A i \in 1..Len(data["movies"].rows) :
            cleaned_data'["movies"].rows[i]["id"] = data["movies"].rows[i]["id"]]_vars

C8_Witness ==
  /\ pc = "pg_connect" /\ {REVIEWS, "actors", "crew"} \subseteq DOMAIN cleaned_data
  /\ "id" \in loaded["actors"].cols /\ "id" \notin loaded["crew"].cols
  /\ "id_movie" \in cleaned_data["actors"].cols
  /\ "id_movie" \in cleaned_data[REVIEWS].cols
  /\ "id_movie" \notin cleaned_data["crew"].cols
  /\ "id" \in cleaned_data["movies"].cols

\* C9: clean_data returns every loaded dataset, none of them empty; when a
\* dataset (a required one or another CSV of the directory) has no rows after
\* cleaning, prepare_for_database raises and the run exits with status 1
\* before either store is touched.
C9_NoEmptyDatasetReturned ==
  /\ cleaned_data # NoData =>
       /\ DOMAIN cleaned_data = DOMAIN loaded
       /\ \A n \in DOMAIN cleaned_data : Len(cleaned_data[n].rows) > 0
  /\ (InTrace("prepare_for_database") /\ \E n \in DOMAIN data : Len(data[n].rows) = 0) =>
       /\ failed.stage = "prepare_for_database"
       /\ failed.exc \in {"ValueError", "KeyboardInterrupt"}
       /\ exit_status = 1 /\ cleaned_data = NoData
       /\ StoresUntouched

C9_Witness ==
  /\ failed = [stage |-> "prepare_for_database", exc |-> "ValueError"]
  /\ ExtraName \in DOMAIN data /\ Len(data[ExtraName].rows) = 0
  /\ \A n \in DOMAIN data \ {ExtraName} : Len(data[n].rows) > 0

\* C10: insert_dataframe of either loader, called with an empty table, returns
\* 0, raises nothing and sends nothing to the store: what is committed, what
\* the open transaction holds and the documents are as before the call.
C10_EmptyInsertIsNoOp ==
  (call.loader # "" /\ empty(call.df)) =>
     /\ call.ret = 0 /\ call.exc = ""
     /\ Before = call.before

C10_Witness ==
  /\ call.loader = "postgres" /\ empty(call.df) /\ call.df.cols # {}
  /\ pgwork # pgdb
  /\ trace = <<"pg_insert_dataframe">>

\* C11: when an execute_batch or the commit of one relational insert_dataframe
\* call fails, the call rolls back: what is committed is what was committed
\* before the call, nothing is left pending in the transaction, and the error
\* raised is a RuntimeError whose message names the target table.
PgCallFailed == call.loader = "postgres" /\ call.exc # ""

CallReturned == call.loader # "" /\ ~empty(call.df) /\ call.exc = ""

Ceil(n, b) == CHOOSE m \in 0..n : m * b >= n /\ (m = 0 \/ (m - 1) * b < n)

Submitted(df) == IF call.loader = "mongo" THEN replace_na(df).rows ELSE df.rows

LogOfCall ==
  IF call.loader = "postgres"
  THEN SubSeq(pglog, Len(call.before.pglog) + 1, Len(pglog))
  ELSE SubSeq(mongolog, Len(call.before.mongolog) + 1, Len(mongolog))

C12_BatchesCoverRowsOnce ==
  /\ POSTGRES_BATCH_SIZE = MONGO_BATCH_SIZE
  /\ CallReturned =>
       LET n == Len(call.df.rows)
           nb == Ceil(n, call.bs)
       IN /\ Len(call.batches) = nb
          /\ \A k \in 1..nb : Len(call.batches[k]) \in 1..call.bs
          /\ Flat(call.batches) = Submitted(call.df)
          /\ call.ret = n
          /\ LogOfCall = [k \in 1..(IF call.loader = "postgres" THEN nb + 1 ELSE nb) |->
                            IF k = nb + 1 THEN "commit"
                            ELSE IF call.loader = "postgres" THEN "execute_batch"
                            ELSE "insert_many"]

\* Two rows in two batches of one.
C12_Witness ==
  /\ CallReturned /\ call.loader = "mongo" /\ call.bs = 1 /\ Len(call.batches) = 2
  /\ call.ret = 2 /\ Len(mongodb.colls[call.target]) >= 2

\* C13: the relational load fails for a zero total exactly when the total is
\* zero after all the datasets of pg_tables were attempted: the check on the
\* total does not fail the load at an earlier dataset, and index creation is
\* not reached with a total of zero.
KeyAt(i) == pg_tables[i][1]

TotalCheckFailedAt(i) ==
  /\ failed = [stage |-> "pg_insert", exc |-> "Exception"]
  /\ pg_i = i /\ KeyAt(i) \notin DOMAIN cleaned_data

PassedDataset(i) == pg_i > i \/ InTrace("pg_create_indexes")

IndexPassDone == \E i \in 1..Len(pglog) : pglog[i] = "indexes"
IndexPassAt == CHOOSE i \in 1..Len(pglog) : pglog[i] = "indexes"
IndexCommitted == IndexPassDone /\ failed.stage # "pg_create_indexes"

C15_FailedIndexIsSkipped ==
  IndexPassDone =>
     /\ \A k \in 1..NumPgIndexes : pglog[IndexPassAt + k] \in {"index", "index_error"}
     /\ pglog[IndexPassAt + NumPgIndexes + 1] = "commit"
     /\ IndexCommitted =>
          \A k \in 1..NumPgIndexes :
             pglog[IndexPassAt + k] = "index" => k \in pgdb.indexes

\* Stage `stage` ran to its end (it neither raised nor was interrupted).
Completed(stage) == InTrace(stage) /\ failed.stage # stage

Count(log, op) == Cardinality({i \in 1..Len(log) : log[i] = op})

\* C16: a failure of any create_index call of the document store, the unique
\* index on messageId included, makes create_indexes raise RuntimeError and
\* the run exit with status 1; a run that ends successfully has created every
\* index of the document store.
AllMongoIndexes == 1..NumMongoIndexes \subseteq mongodb.indexes

C16_MongoIndexFailureIsFatal ==
  /\ (InTrace("mongo_create_indexes") /\ ~AllMongoIndexes) =>
        /\ pc = "exit" /\ exit_status = 1
        /\ failed.stage = "mongo_create_indexes"
        /\ failed.exc \in {"RuntimeError", "KeyboardInterrupt"}
  /\ (pc = "done" \/ exit_status = 0) => AllMongoIndexes

\* The unique index on messageId, the first of messages, failed.
C16_Witness ==
  /\ failed = [stage |-> "mongo_create_indexes", exc |-> "RuntimeError"]
  /\ mongodb.indexes = 1..NumReviewIndexes
  /\ exit_status = 1

\* C17: once create_collections succeeded the namespace holds the three
\* collections reviews, oscar_awards and messages and no other, each empty
\* until the inserts, whatever it held before; messages stays empty to the
\* end of the run; when a creation fails, create_collections raises and the
\* collections after the failing one do not exist.
CollectionNames == {collections[i] : i \in 1..Len(collections)}

C17_ThreeEmptyCollections ==
  /\ Completed("mongo_create_collections") =>
        /\ DOMAIN mongodb.colls = CollectionNames
        /\ mongodb.colls["messages"] = <<>>
        /\ pc = "mongo_insert_reviews" => \A c \in CollectionNames : mongodb.colls[c] = <<>>
  /\ failed = [stage |-> "mongo_create_collections", exc |-> "Exception"] =>
        LET creates == Count(mongolog, "create_collection")
        IN IF creates = 0
           THEN mongodb = AddDocs(stores0.mongo, "test_permissions", <<>>)
           ELSE /\ creates <= Len(collections)
                /\ DOMAIN mongodb.colls = {collections[i] : i \in 1..(creates - 1)}
                /\ \A c \in DOMAIN mongodb.colls : mongodb.colls[c] = <<>>

\* A whole run on a namespace that held reviews and messages.
C17_Witness ==
  /\ pc = "done" /\ stores0.mongo = MongoOld
  /\ mongodb.colls["messages"] = <<>> /\ Len(mongodb.colls["reviews"]) > 0
  /\ "test_permissions" \notin DOMAIN mongodb.colls

\* C18: when create_schema fails the transaction is rolled back (the store
\* holds the schema and the rows it held before the run), the psycopg2 error
\* is re-raised, and the run ends without an insert or an index statement.
SchemaFailed == failed = [stage |-> "pg_create_schema", exc |-> "psycopg2.Error"]

C18_SchemaFailureRollsBack ==
  SchemaFailed =>
     /\ pgdb = stores0.pg /\ pgwork = pgdb
     /\ pglog[Len(pglog)] = "rollback"
     /\ Count(pglog, "execute_batch") = 0 /\ Count(pglog, "indexes") = 0
     /\ pc = "exit" /\ exit_status = 1
     /\ ~InTrace("pg_insert") /\ ~InTrace("pg_create_indexes")

\* The commit of the new schema failed on a store that held rows.
C18_Witness ==
  /\ SchemaFailed /\ stores0.pg = PgOld
  /\ pglog[Len(pglog) - 1] = "commit"

\* C19: a run that ends in failure after a loader's connect succeeded has
\* run that loader's cleanup before the process exits.
C19_CleanupBeforeExit ==
  pc = "exit" =>
     /\ Completed("pg_connect") => pgconn = "closed"
     /\ Completed("mongo_connect") => mongoclient = "closed"

\* C20 as stated: a run that fails once the relational block of main is
\* through and before the document inserts are reached ends with the relational store
\* holding the whole new load, the document store holding no document, and
\* exit status 1.
FailedBetweenLoads ==
  pc = "exit" /\ Completed("pg_cleanup") /\ ~InTrace("mongo_insert_reviews")

RelationalComplete ==
  /\ pgdb.schema = "new"
  /\ \A i \in 1..Len(pg_tables) :
        pgdb.tables[pg_tables[i][2]] =
          (IF KeyAt(i) \in DOMAIN cleaned_data THEN cleaned_data[KeyAt(i)].rows ELSE <<>>)

PgConnectFailed == failed.stage = "pg_connect" /\ failed.exc # "KeyboardInterrupt"
MongoConnectFailed == failed.stage = "mongo_connect" /\ failed.exc # "KeyboardInterrupt"

C21_ConnectErrorCategories ==
  /\ PgConnectFailed =>
        /\ failed.exc \in {"ConnectionError", "PermissionError", "RuntimeError"}
        /\ pgconn = "none" <=> failed.exc = "ConnectionError"
  /\ MongoConnectFailed =>
        /\ mongolog[Len(mongolog)] = "ping" <=> failed.exc = "ConnectionError"
        /\ mongolog[Len(mongolog)] = "insert_one" <=> failed.exc = "PermissionError"

\* C23: normalize_score is idempotent on the valid encodings: a plain number
\* in 0-10, a fraction with a positive denominator whose value is in 0-1, a
\* known letter grade.  Its result is a number, and normalize_score applied
\* to that number returns it.
ValidScore(e) ==
  CASE e.kind = "num" -> e.a >= 0 /\ e.a <= 1000
    [] e.kind = "frac" -> e.b > 0 /\ e.a >= 0 /\ e.a <= e.b
    [] e.kind = "letter" -> e.g \in Grades \ {"Z"}
    [] OTHER -> FALSE

C23_NormalizeScoreIdempotent ==
  (score_call.step = 2 /\ ValidScore(score_call.raw)) =>
     /\ score_call.once.kind = "num"
     /\ score_call.twice = score_call.once

\* 1/3 is rescaled and rounded to 3.3, which is returned as it is.
C23_Witness ==
  /\ score_call.step = 2 /\ score_call.raw = Frac(1, 3)
  /\ score_call.once = Num(330) /\ score_call.twice = Num(330)

\* The end-to-end scenario: one movie (1, "Alpha") and one review of
\* "Alpha (1999)" with the score "B", and the run succeeded.
ScenarioDone ==
  /\ pc = "done"
  /\ loaded["movies"].rows = <<[id |-> "1", name |-> "Alpha"]>>
  /\ loaded[REVIEWS].rows = <<[movie_title |-> "Alpha (1999)", review_score |-> "B"]>>

ReviewDocs == mongodb.colls["reviews"]

\* C22 as stated: after the scenario the reviews collection holds one
\* document, with id = 1 and review_score = 8.0.
C22_ReviewDocumentHasId ==
  ScenarioDone =>
     /\ Len(ReviewDocs) = 1
     /\ "id" \in DOMAIN ReviewDocs[1] /\ ReviewDocs[1]["id"] = "1"
     /\ ReviewDocs[1]["review_score"] = "8.0"

\* C22, amended: after the scenario the reviews collection holds one
\* document, with id_movie = 1 and review_score = 8.0 (and the title as it
\* was read); it has no field id.
C22_ReviewDocumentHasIdMovie ==
  ScenarioDone =>
     ReviewDocs = <<[movie_title |-> "Alpha (1999)", review_score |-> "8.0",
                     id_movie |-> "1"]>>

C22_Witness ==
  /\ ScenarioDone
  /\ Len(ReviewDocs) = 1 /\ ReviewDocs[1]["id_movie"] = "1"
  /\ mongo_total = 2

\* The relational load has fully finished: every dataset main has is in its
\* table and committed, the index pass ran, the connection is closed.
RelationalFinished ==
  /\ Completed("pg_cleanup") /\ pgconn = "closed"
  /\ IndexPassDone
  /\ pgwork = pgdb
  /\ \A i \in 1..Len(pg_tables) :
        KeyAt(i) \in DOMAIN cleaned_data =>
           pgdb.tables[pg_tables[i][2]] = cleaned_data[KeyAt(i)].rows

\* Some operation was sent to the document store, or its content changed.
DocumentStoreTouched ==
  \/ mongoclient # "none"
  \/ mongolog # <<>>
  \/ mongodb # stores0.mongo

RelationalFailed == failed.stage # "" /\ BlockOf(failed.stage) = "postgres"

\* C24: no operation reaches the document store before the relational load
\* has fully finished, and a run whose relational load failed leaves the
\* document store exactly as it was before the run.
C24_DocumentLoadAfterRelational ==
  /\ DocumentStoreTouched => RelationalFinished
  /\ RelationalFailed => ~DocumentStoreTouched

C24_Witness ==
  /\ pc = "mongo_create_collections"
  /\ mongolog = <<"ping", "insert_one", "delete_one">>
  /\ RelationalFinished
  /\ stores0.mongo = MongoOld

\* The positions of an operation in the relational log.
PgOps(op) == {i \in 1..Len(pglog) : pglog[i] = op}

\* create_schema's statements and commit precede position i of the log.
SchemaCommittedBefore(i) ==
  \E j \in PgOps("schema") : j + 1 < i /\ pglog[j + 1] = "commit"

\* The rows of main's dataset i are committed in its table.
DatasetCommitted(i) ==
  /\ KeyAt(i) \in DOMAIN cleaned_data
  /\ ~empty(cleaned_data[KeyAt(i)])
  /\ pgdb.tables[pg_tables[i][2]] = cleaned_data[KeyAt(i)].rows

\* An insert of a dependent dataset was started: the loop is past movies, or
\* a dependent table holds a row, committed or not.
DependentInsertStarted ==
  \/ pg_i > 1
  \/ \E i \in 2..Len(pg_tables) :
        \/ pgdb.tables[pg_tables[i][2]] # <<>>
        \/ pgwork.tables[pg_tables[i][2]] # <<>>

\* C25: in the relational load create_schema completes before the first
\* insert, movies is inserted and committed before any dependent dataset is
\* inserted, and create_indexes starts only after the insert of every
\* structured dataset has been committed.
C25_RelationalLoadOrder ==
  /\ \A i \in PgOps("execute_batch") :
        SchemaCommittedBefore(i) /\ Completed("pg_create_schema")
  /\ DependentInsertStarted => KeyAt(1) = "movies" /\ DatasetCommitted(1)
  /\ (IndexPassDone \/ pc = "pg_create_indexes") =>
        /\ \A i \in 1..Len(pg_tables) : DatasetCommitted(i)
        /\ pgwork.tables = pgdb.tables
        /\ IndexPassDone => \A i \in PgOps("execute_batch") : i < IndexPassAt

C25_Witness ==
  /\ pc = "pg_cleanup" /\ IndexPassDone
  /\ \A i \in 1..Len(pg_tables) : DatasetCommitted(i)
  /\ Cardinality(PgOps("execute_batch")) >= Len(pg_tables)
  /\ stores0.pg = PgOld

\* A batch insert raised in the document loader's insert_dataframe.
MongoBatchFailed == call.loader = "mongo" /\ call.exc # ""

\* C26: when a batch insert raises in the document loader's insert_dataframe,
\* the error names the collection and the index of the failing batch, no
\* later batch is attempted, and the documents of the batches inserted before
\* it remain in the collection.
C26_BatchErrorNamesBatch ==
  MongoBatchFailed =>
     LET k == Len(call.batches)
         before == IF call.target \in DOMAIN call.before.mongodb.colls
                   THEN call.before.mongodb.colls[call.target] ELSE <<>>
         earlier == before \o Flat(SubSeq(call.batches, 1, k - 1))
     IN /\ call.exc = "RuntimeError"
        /\ call.names = call.target
        /\ call.error_batch = k
        /\ LogOfCall = [j \in 1..k |-> "insert_many"]
        /\ k <= Ceil(Len(call.df.rows), call.bs)
        /\ SubSeq(mongodb.colls[call.target], 1, Len(earlier)) = earlier

\* What the code does: the same, but the index of the failing batch is in the
\* logged line alone.
C26_BatchErrorNamesCollection ==
  MongoBatchFailed =>
     LET k == Len(call.batches)
         before == IF call.target \in DOMAIN call.before.mongodb.colls
                   THEN call.before.mongodb.colls[call.target] ELSE <<>>
         earlier == before \o Flat(SubSeq(call.batches, 1, k - 1))
     IN /\ call.exc = "RuntimeError"
        /\ call.names = call.target
        /\ call.error_batch = 0 /\ call.logged_batch = k
        /\ LogOfCall = [j \in 1..k |-> "insert_many"]
        /\ SubSeq(mongodb.colls[call.target], 1, Len(earlier)) = earlier

\* The insert of the dataset at pg_i raised and the run exited.
DatasetInsertFailed ==
  pc = "exit" /\ failed = [stage |-> "pg_insert", exc |-> "RuntimeError"]

\* Nothing of the schema an earlier run left is in the store.
OldSchemaGone(db) ==
  /\ db.schema = "new"
  /\ 0 \notin db.indexes
  /\ \A t \in DOMAIN db.tables :
        \A j \in 1..Len(db.tables[t]) : db.tables[t][j] # OldRow

\* C27: when the insert of the k-th structured dataset fails, that dataset's
\* transaction alone is rolled back: at exit (status 1) the datasets inserted
\* before it are committed in full, the k-th table and the later ones are
\* empty, and the schema and the rows of the previous run are gone.
C27_EarlierDatasetsStayCommitted ==
  DatasetInsertFailed =>
     /\ exit_status = 1
     /\ pglog[Len(pglog)] = "rollback"
     /\ \A i \in 1..(pg_i - 1) : DatasetCommitted(i)
     /\ \A i \in pg_i..Len(pg_tables) :
           /\ pgdb.tables[pg_tables[i][2]] = <<>>
           /\ pgwork.tables[pg_tables[i][2]] = <<>>
     /\ pgwork = pgdb
     /\ OldSchemaGone(pgdb)

\* The second batch of the third dataset fails on a store an earlier run
\* filled.
C27_Witness ==
  /\ DatasetInsertFailed
  /\ pg_i = 3 /\ stores0.pg = PgOld
  /\ DatasetCommitted(1) /\ DatasetCommitted(2)
  /\ Len(cleaned_data[KeyAt(3)].rows) = 2
  /\ SubSeq(pglog, Len(pglog) - 2, Len(pglog)) = <<"execute_batch", "execute_batch", "rollback">>

\* The dependent structured entities of the schema.
DependentTables == SchemaTables \ {"movies"}

\* The prepared dataset a dependent table is loaded from.
DatasetOf(t) ==
  CASE t = "crews" -> "crew"
    [] t = "oscars" -> AWARDS
    [] OTHER -> t

\* C28: after a successful run every dependent table of the schema, oscars
\* included, holds the rows of its prepared dataset.
C28_EveryDependentTableLoaded ==
  (pc = "done" /\ exit_status = 0) =>
     \A t \in DependentTables :
        /\ DatasetOf(t) \in DOMAIN cleaned_data
        /\ pgdb.tables[t] = cleaned_data[DatasetOf(t)].rows

\* What the code does: the ten tables of pg_tables are loaded, the award rows
\* go to the document collection oscar_awards and the oscars table is empty.
C28_OscarsTableStaysEmpty ==
  (pc = "done" /\ exit_status = 0) =>
     /\ \A i \in 1..Len(pg_tables) : DatasetCommitted(i)
     /\ pgdb.tables["oscars"] = <<>>
     /\ mongodb.colls["oscar_awards"] = replace_na(cleaned_data[AWARDS]).rows

\* validate_data_directory was called on a directory that exists and holds
\* the twelve required files, none of size zero.
ValidDirectoryChecked ==
  /\ InTrace("validate_data_directory")
  /\ dir.exists /\ ~HasZeroFile(dir) /\ Len(missing_files(dir)) = 0

\* C30: when the data directory is given on the command line and is valid,
\* validation passes and the run goes on to cleaning, as it does for the
\* default directory.
C30_ArgumentDirectoryPasses ==
  (argv_given /\ ValidDirectoryChecked) =>
     /\ Completed("validate_data_directory")
     /\ pc # "exit" => InTrace("DataCleaner") \/ pc = "DataCleaner"

\* The default directory: a valid one passes validation.
C30_DefaultDirectoryPasses ==
  (~argv_given /\ ValidDirectoryChecked) => Completed("validate_data_directory")

\* What a successful run on the prepared datasets d leaves in stores that were
\* empty: the ten tables of pg_tables with their rows, the two collections
\* with their documents and an empty messages, and the indexes.  idx is the
\* set of relational indexes the index pass committed.
FreshPg(d, idx) ==
  [schema |-> "new",
   tables |-> [t \in SchemaTables |->
                 IF \E i \in 1..Len(pg_tables) : pg_tables[i][2] = t
                 THEN d[pg_tables[CHOOSE i \in 1..Len(pg_tables) : pg_tables[i][2] = t][1]].rows
                 ELSE <<>>],
   indexes |-> idx]

FreshMongo(d) ==
  [colls |-> [c \in CollectionNames |->
                CASE c = "reviews" -> replace_na(d[REVIEWS]).rows
                  [] c = "oscar_awards" -> replace_na(d[AWARDS]).rows
                  [] OTHER -> <<>>],
   indexes |-> 1..NumMongoIndexes]

\* The relational indexes this run's index pass committed: all of them when
\* no statement failed, none otherwise.
IndexesOfThisRun ==
  IF Count(pglog, "index_error") = 0 THEN 1..NumPgIndexes ELSE {}

\* C29: after a successful run the two stores hold what a successful run on
\* the same input leaves in empty stores, whatever an earlier run had left in
\* them: no row, document, collection or index of the earlier run survives
\* or is duplicated.
C29_RerunLeavesFreshStores ==
  pc = "done" =>
     /\ pgdb = FreshPg(cleaned_data, IndexesOfThisRun)
     /\ pgwork = pgdb
     /\ mongodb = FreshMongo(cleaned_data)

\* A successful run on stores an earlier run had filled.
C29_Witness ==
  /\ pc = "done" /\ exit_status = 0
  /\ stores0 = [pg |-> PgOld, mongo |-> MongoOld]
  /\ pgdb = FreshPg(cleaned_data, 1..NumPgIndexes)
  /\ mongodb = FreshMongo(cleaned_data)
  /\ Len(mongodb.colls["reviews"]) = 2

====
